---- MODULE Spec2Model ----
(***************************************************************************)
(* hmacsig: HMAC signature validating HTTP middleware.                     *)
(*                                                                         *)
(* Byte strings (request bodies, secrets, signature header values) are     *)
(* sequences of byte values 0..255.  Fixed texts written to a response     *)
(* (messages, error texts) are single symbols of the response stream, and  *)
(* the newline that Fprintln appends is a symbol of its own.               *)
(***************************************************************************)
EXTENDS Integers, Sequences, FiniteSets, TLC

VARIABLES phase, ctor, opts, sig, req, r, heap, w, calls, vcalls

vars == <<phase, ctor, opts, sig, req, r, heap, w, calls, vcalls>>

(***************************************************************************)
(* Bounds of the model.                                                    *)
(***************************************************************************)
\* longest request body
MaxBodyLen == 2
\* longest option list given to a constructor of a gate that serves requests
MaxGateOptions == 1
\* longest option list given to a constructor in the configuration check
MaxOptions == 2
\* bytes of a digest of the SHA-1 stand-in (sha1.Size is 20)
Sha1Size == 1
\* bytes of a digest of the SHA-256 stand-in (sha256.Size is 32)
Sha256Size == 2

(***************************************************************************)
(* Constants of the package.                                               *)
(***************************************************************************)
GithubSignatureHeader == "X-Hub-Signature"

GithubSignatureHeader256 == "X-Hub-Signature-256"

MsgMissingSignature == "Missing required header for HMAC verification"

MsgFailedHMAC == "HMAC verification failed"

StatusOK == 200

StatusForbidden == 403

StatusInternalServerError == 500

\* the absent error
Nil == "nil"

(***************************************************************************)
(* Bytes.                                                                  *)
(***************************************************************************)
RECURSIVE BitXor(_, _)
\* x ^ y on bytes
BitXor(x, y) == IF x = 0 /\ y = 0 THEN 0 ELSE ((x + y) % 2) + 2 * BitXor(x \div 2, y \div 2)

RECURSIVE BitOr(_, _)
\* x | y on bytes
BitOr(x, y) == IF x = 0 /\ y = 0 THEN 0 ELSE (IF x % 2 = 1 \/ y % 2 = 1 THEN 1 ELSE 0) + 2 * BitOr(x \div 2, y \div 2)

\* "0123456789abcdef"
hextable == <<48, 49, 50, 51, 52, 53, 54, 55, 56, 57, 97, 98, 99, 100, 101, 102>>

RECURSIVE EncodeToString(_)
\* hex.EncodeToString: two characters of hextable per byte, high nibble first
EncodeToString(src) == IF src = <<>> THEN <<>> ELSE <<hextable[(Head(src) \div 16) + 1], hextable[(Head(src) % 16) + 1]>> \o EncodeToString(Tail(src))

\* the mutant of ConstantTimeCompare: a comparison that stops at the first
\* differing byte
ShortCircuitCompare(x, y) == LET n == IF Len(x) < Len(y) THEN Len(x) ELSE Len(y)
                                 diff == {i \in 1..n : x[i] # y[i]}
                                 first == IF diff = {} THEN n ELSE CHOOSE i \in diff : \A j \in diff : i <= j
                             IN [eq |-> (diff = {} /\ Len(x) = Len(y)), steps |-> first]

\* the mutant of ConstantTimeCompare: no length check, the bytes of the shorter
\* operand decide
PrefixCompare(x, y) == LET n == IF Len(x) < Len(y) THEN Len(x) ELSE Len(y)
                       IN [eq |-> \A i \in 1..n : x[i] = y[i], steps |-> n]

RECURSIVE XorAccumulate(_, _, _, _)
\* the loop of subtle.ConstantTimeCompare: v |= x[i] ^ y[i] for every i
XorAccumulate(x, y, i, v) == IF i > Len(x) THEN v ELSE XorAccumulate(x, y, i + 1, BitOr(v, BitXor(x[i], y[i])))

\* hmac.Equal, which is subtle.ConstantTimeCompare(x, y) == 1: unequal lengths
\* return at once; otherwise every byte pair is examined and only the
\* accumulated difference is tested.  steps counts the byte pairs examined.
ConstantTimeCompare(x, y) == IF Len(x) # Len(y) THEN [eq |-> FALSE, steps |-> 0] ELSE [eq |-> (XorAccumulate(x, y, 1, 0) = 0), steps |-> Len(x)]

(***************************************************************************)
(* The keyed digests.  hmac.New(sha1.New, key), Write(msg), Sum(nil) is a  *)
(* deterministic function of (hash, key, msg) yielding Size bytes; the     *)
(* stand-in below is such a function on a narrow digest.                   *)
(***************************************************************************)
RECURSIVE Absorb(_, _)
Absorb(acc, data) == IF data = <<>> THEN acc ELSE Absorb((acc * 33 + Head(data) + 1) % 251, Tail(data))

Size(hash) == IF hash = "sha1" THEN Sha1Size ELSE Sha256Size

HMACSum(hash, key, msg) == LET k == Absorb(IF hash = "sha1" THEN 7 ELSE 11, key)
                               m == Absorb(k, msg)
                           IN [i \in 1..Size(hash) |-> (m * (2 * i + 1) + k * i + 3 * Len(msg)) % 256]

\* "sha1="
PrefixSHA1 == <<115, 104, 97, 49, 61>>

\* "sha256="
PrefixSHA256 == <<115, 104, 97, 50, 53, 54, 61>>

\* the mutant of SHA256Validator: the SHA-1 binding under the SHA-256 name
SHA256ValidatorAsSHA1(body, xSig, secret) == ConstantTimeCompare(PrefixSHA1 \o EncodeToString(HMACSum("sha1", secret, body)), xSig)

SHA1Validator(body, xSig, secret) == LET ehash == HMACSum("sha1", secret, body)
                                         esig == PrefixSHA1 \o EncodeToString(ehash)
                                     IN ConstantTimeCompare(esig, xSig)

SHA256Validator(body, xSig, secret) == LET ehash == HMACSum("sha256", secret, body)
                                           esig == PrefixSHA256 \o EncodeToString(ehash)
                                       IN ConstantTimeCompare(esig, xSig)

\* xh.validator(b, xSig, xh.secret): the call through the function value
CallValidator(validator, body, xSig, secret) == IF validator = "SHA1Validator" THEN SHA1Validator(body, xSig, secret) ELSE SHA256Validator(body, xSig, secret)

(***************************************************************************)
(* The gate's configuration: hmacSig, the options, the constructors.       *)
(***************************************************************************)
OptionHeader(header) == [kind |-> "OptionHeader", arg |-> header]

OptionMissingSignatureHandler(handler) == [kind |-> "OptionMissingSignatureHandler", arg |-> handler]

OptionVerifyFailedHandler(handler) == [kind |-> "OptionVerifyFailedHandler", arg |-> handler]

OptionDefaultsSHA256 == [kind |-> "OptionDefaultsSHA256", arg |-> "-"]

OptionSignatureValidator(validator) == [kind |-> "OptionSignatureValidator", arg |-> validator]

\* option(sig): what each option's closure assigns
ApplyOption(mux, option) == CASE option.kind = "OptionHeader" -> [mux EXCEPT !.header = option.arg]
                              [] option.kind = "OptionMissingSignatureHandler" -> [mux EXCEPT !.missingSignatureHandler = option.arg]
                              [] option.kind = "OptionVerifyFailedHandler" -> [mux EXCEPT !.verifyFailedHandler = option.arg]
                              [] option.kind = "OptionDefaultsSHA256" -> [mux EXCEPT !.header = GithubSignatureHeader256, !.validator = "SHA256Validator"]
                              [] option.kind = "OptionSignatureValidator" -> [mux EXCEPT !.validator = option.arg]

RECURSIVE ApplyOptions(_, _)
\* for _, option := range options { option(sig) }
ApplyOptions(mux, options) == IF options = <<>> THEN mux ELSE ApplyOptions(ApplyOption(mux, Head(options)), Tail(options))

Reverse(s) == [i \in 1..Len(s) |-> s[Len(s) + 1 - i]]

\* the mutant of Handler: the options applied last to first
HandlerReversed(h, secret, options) == ApplyOptions([h |-> h, secret |-> secret, header |-> GithubSignatureHeader, missingSignatureHandler |-> "DefaultMissingSignatureHandler", verifyFailedHandler |-> "DefaultVerifyFailedHandler", validator |-> "SHA1Validator"], Reverse(options))

Handler(h, secret, options) == ApplyOptions([h |-> h, secret |-> secret, header |-> GithubSignatureHeader, missingSignatureHandler |-> "DefaultMissingSignatureHandler", verifyFailedHandler |-> "DefaultVerifyFailedHandler", validator |-> "SHA1Validator"], options)

Handler256(h, secret, options) == Handler(h, secret, <<OptionDefaultsSHA256>> \o options)

(***************************************************************************)
(* net/http as the gate uses it: the body reader, the header, the          *)
(* response writer.                                                        *)
(***************************************************************************)
\* failAt of a reader that never fails
NoFail == -1

ErrUnexpectedEOF == "unexpected EOF"

ErrBodyReadAfterClose == "http: invalid Read on closed Body"

NoReader == [data |-> <<>>, pos |-> 0, failAt |-> NoFail, closed |-> TRUE]

\* the mutant of ReadAll: the read error dropped, the bytes read so far returned
ReadAllIgnoringError(rd) == LET stop == IF rd.failAt # NoFail /\ rd.failAt >= rd.pos THEN rd.failAt ELSE Len(rd.data)
                            IN [b |-> SubSeq(rd.data, rd.pos + 1, stop), err |-> Nil, rd |-> [rd EXCEPT !.pos = stop]]

\* ioutil.ReadAll(r.Body): reads from the reader's position to end-of-stream
\* (err nil) or to the reader's failure (the bytes read so far and the error)
ReadAll(rd) == IF rd.closed THEN [b |-> <<>>, err |-> ErrBodyReadAfterClose, rd |-> rd]
               ELSE IF rd.failAt # NoFail /\ rd.failAt >= rd.pos THEN [b |-> SubSeq(rd.data, rd.pos + 1, rd.failAt), err |-> ErrUnexpectedEOF, rd |-> [rd EXCEPT !.pos = rd.failAt]]
               ELSE [b |-> SubSeq(rd.data, rd.pos + 1, Len(rd.data)), err |-> Nil, rd |-> [rd EXCEPT !.pos = Len(rd.data)]]

\* the mutant of HeaderGet: the default header read whatever is configured
HeaderGetDefault(header, key) == LET at == {i \in 1..Len(header) : header[i].key = GithubSignatureHeader /\ header[i].values # <<>>}
                                 IN IF at = {} THEN <<>> ELSE header[CHOOSE i \in at : \A j \in at : i <= j].values[1]

\* r.Header.Get(key): the first value under key, "" when there is none.  A
\* header is the list of its entries, each a key with its values.
HeaderGet(header, key) == LET at == {i \in 1..Len(header) : header[i].key = key /\ header[i].values # <<>>}
                          IN IF at = {} THEN <<>> ELSE header[CHOOSE i \in at : \A j \in at : i <= j].values[1]

\* w.WriteHeader(code): the first status written stands
WriteHeader(rw, code) == IF rw.wroteHeader THEN rw ELSE [rw EXCEPT !.code = code, !.wroteHeader = TRUE]

\* w.Write(data)
Write(rw, data) == [WriteHeader(rw, StatusOK) EXCEPT !.body = @ \o data]

\* http.Error(w, error, code): the status, then Fprintln(w, error)
Error(rw, error, code) == Write(WriteHeader(rw, code), <<error, "\n">>)

(***************************************************************************)
(* The handlers.  A frame st is what one ServeHTTP call works on: the      *)
(* response writer w, the request r, the readers r.Body may point to, and  *)
(* the record of the handler and validator calls made.                     *)
(***************************************************************************)
CallRecord(role, name, st, read) == [role |-> role, handler |-> name, r |-> st.r, reader |-> st.heap[st.r.Body], read |-> read]

\* the mutant of DefaultVerifyFailedHandler: the other message
DefaultVerifyFailedHandlerWrongMsg(role, st) == [st EXCEPT !.w = Error(st.w, MsgMissingSignature, StatusForbidden), !.calls = Append(@, CallRecord(role, "DefaultVerifyFailedHandler", st, <<>>))]

DefaultMissingSignatureHandler(role, st) == [st EXCEPT !.w = Error(st.w, MsgMissingSignature, StatusForbidden), !.calls = Append(@, CallRecord(role, "DefaultMissingSignatureHandler", st, <<>>))]

DefaultVerifyFailedHandler(role, st) == [st EXCEPT !.w = Error(st.w, MsgFailedHMAC, StatusForbidden), !.calls = Append(@, CallRecord(role, "DefaultVerifyFailedHandler", st, <<>>))]

\* a caller's handler: reads the request body to its end, then writes its reply
CallerHandler(role, name, st) == LET got == ReadAll(st.heap[st.r.Body])
                                 IN [st EXCEPT !.heap[st.r.Body] = got.rd, !.w = Write(st.w, <<name>>), !.calls = Append(@, CallRecord(role, name, st, got.b))]

\* handler.ServeHTTP(w, r), through the field `role` of the gate
Invoke(role, xh, st) == CASE xh[role] = "DefaultMissingSignatureHandler" -> DefaultMissingSignatureHandler(role, st)
                          [] xh[role] = "DefaultVerifyFailedHandler" -> DefaultVerifyFailedHandler(role, st)
                          [] OTHER -> CallerHandler(role, xh[role], st)

(***************************************************************************)
(* hmacSig.ServeHTTP, in the order of its statements.                      *)
(***************************************************************************)
\* the mutant of RestoreBody: the request forwarded with its consumed body
NoRestoreBody(st, b) == st

\* r.Body.Close(); r.Body = ioutil.NopCloser(bytes.NewBuffer(b))
RestoreBody(st, b) == [st EXCEPT !.heap = [@ EXCEPT ![st.r.Body].closed = TRUE, !["buf"] = [data |-> b, pos |-> 0, failAt |-> NoFail, closed |-> FALSE]], !.r.Body = "buf"]

\* the success path: restore the body, call the downstream handler
Forward(xh, st, b) == Invoke("h", xh, RestoreBody(st, b))

\* the verdict of xh.validator(b, xSig, xh.secret), the call recorded
Validated(xh, st, b, xSig) == LET res == CallValidator(xh.validator, b, xSig, xh.secret)
                              IN [st EXCEPT !.vcalls = Append(@, [validator |-> xh.validator, body |-> b, sig |-> xSig, secret |-> xh.secret, eq |-> res.eq, steps |-> res.steps])]

\* the mutant of Verify: the return after the verification-failed handler missing
VerifyNoReturn(xh, st, b, xSig) == LET st1 == Validated(xh, st, b, xSig)
                                   IN IF ~st1.vcalls[Len(st1.vcalls)].eq THEN Forward(xh, Invoke("verifyFailedHandler", xh, st1), b) ELSE Forward(xh, st1, b)

\* the mutant of Verify: the body restored before the verdict is acted on
VerifyRestoreFirst(xh, st, b, xSig) == LET st1 == RestoreBody(Validated(xh, st, b, xSig), b)
                                       IN IF ~st1.vcalls[Len(st1.vcalls)].eq THEN Invoke("verifyFailedHandler", xh, st1) ELSE Invoke("h", xh, st1)

\* if !xh.validator(b, xSig, xh.secret) { verifyFailedHandler; return }; forward
Verify(xh, st, b, xSig) == LET st1 == Validated(xh, st, b, xSig)
                           IN IF ~st1.vcalls[Len(st1.vcalls)].eq THEN Invoke("verifyFailedHandler", xh, st1) ELSE Forward(xh, st1, b)

\* xSig := r.Header.Get(xh.header); if xSig == "" { missingSignatureHandler; return }
CheckHeader(xh, st, b) == LET xSig == HeaderGet(st.r.Header, xh.header)
                          IN IF xSig = <<>> THEN Invoke("missingSignatureHandler", xh, st) ELSE Verify(xh, st, b, xSig)

ServeHTTP(xh, st) == LET got == ReadAll(st.heap[st.r.Body])
                         st1 == [st EXCEPT !.heap[st.r.Body] = got.rd]
                     IN IF got.err # Nil THEN [st1 EXCEPT !.w = Error(st1.w, got.err, StatusInternalServerError)] ELSE CheckHeader(xh, st1, got.b)

(***************************************************************************)
(* The inputs: what callers construct gates with and what clients send.    *)
(***************************************************************************)
SeqsUpTo(S, n) == UNION {[1..k -> S] : k \in 0..n}

\* "A", "B"
BodyBytes == {65, 66}

Bodies == SeqsUpTo(BodyBytes, MaxBodyLen)

\* "", "k"
Secrets == {<<>>, <<107>>}

FunkyHeader == "Funky-Non-Standard-Header"

HeaderNames == {GithubSignatureHeader, GithubSignatureHeader256, FunkyHeader}

Options == {OptionHeader(FunkyHeader), OptionMissingSignatureHandler("onMissing"), OptionVerifyFailedHandler("onFailed"), OptionDefaultsSHA256, OptionSignatureValidator("SHA1Validator"), OptionSignatureValidator("SHA256Validator")}

\* "invalid"
Invalid == <<105, 110, 118, 97, 108, 105, 100>>

\* the header value a holder of `secret` sends with `body`
Sign(hash, secret, body) == (IF hash = "sha1" THEN PrefixSHA1 ELSE PrefixSHA256) \o EncodeToString(HMACSum(hash, secret, body))

Hashes == {"sha1", "sha256"}

\* the header values tried with a body: none, junk, and the signatures of this
\* body and of the empty body under either binding and any secret
SigValues(body) == {<<>>, Invalid} \cup {Sign(hash, secret, b) : hash \in Hashes, secret \in Secrets, b \in {body, <<>>}}

RequestHeaders(body) == {<<>>} \cup {<<[key |-> name, values |-> <<value>>]>> : name \in HeaderNames, value \in SigValues(body)}

Requests == UNION {{[Method |-> "POST", URL |-> "localhost", Header |-> header, body |-> body, failAt |-> failAt] : header \in RequestHeaders(body), failAt \in {NoFail} \cup 0..Len(body)} : body \in Bodies}

(***************************************************************************)
(* The state machine: a gate is constructed, then serves requests one      *)
(* after the other; nothing of a request outlives it.                      *)
(***************************************************************************)
NoSig == [h |-> "", secret |-> <<>>, header |-> "", missingSignatureHandler |-> "", verifyFailedHandler |-> "", validator |-> ""]

NoRequest == [Method |-> "", URL |-> "", Header |-> <<>>, body |-> <<>>, failAt |-> NoFail]

NoR == [Method |-> "", URL |-> "", Header |-> <<>>, Body |-> "orig"]

NoHeap == [orig |-> NoReader, buf |-> NoReader]

\* httptest.NewRecorder()
NewRecorder == [code |-> StatusOK, wroteHeader |-> FALSE, body |-> <<>>]

\* http.NewRequest(method, url, body) with the header set
NewFrame(request) == [w |-> NewRecorder, r |-> [Method |-> request.Method, URL |-> request.URL, Header |-> request.Header, Body |-> "orig"], heap |-> [orig |-> [data |-> request.body, pos |-> 0, failAt |-> request.failAt, closed |-> FALSE], buf |-> NoReader], calls |-> <<>>, vcalls |-> <<>>]

Idle == /\ req = NoRequest
        /\ r = NoR
        /\ heap = NoHeap
        /\ w = NewRecorder
        /\ calls = <<>>
        /\ vcalls = <<>>

Init == /\ phase = "new"
        /\ ctor = ""
        /\ opts = <<>>
        /\ sig = NoSig
        /\ Idle

DoHandler(lists) == /\ phase = "new"
                    /\ \E secret \in Secrets, options \in lists :
                         /\ sig' = Handler("h", secret, options)
                         /\ ctor' = "Handler"
                         /\ opts' = options
                    /\ phase' = "ready"
                    /\ UNCHANGED <<req, r, heap, w, calls, vcalls>>

DoHandler256(lists) == /\ phase = "new"
                       /\ \E secret \in Secrets, options \in lists :
                            /\ sig' = Handler256("h", secret, options)
                            /\ ctor' = "Handler256"
                            /\ opts' = options
                       /\ phase' = "ready"
                       /\ UNCHANGED <<req, r, heap, w, calls, vcalls>>

DoServeHTTP == /\ phase = "ready"
               /\ \E request \in Requests :
                    LET st == ServeHTTP(sig, NewFrame(request))
                    IN /\ req' = request
                       /\ r' = st.r
                       /\ heap' = st.heap
                       /\ w' = st.w
                       /\ calls' = st.calls
                       /\ vcalls' = st.vcalls
               /\ phase' = "served"
               /\ UNCHANGED <<ctor, opts, sig>>

\* the response is sent; the request and everything read from it are dropped
RequestDone == /\ phase = "served"
               /\ phase' = "ready"
               /\ req' = NoRequest
               /\ r' = NoR
               /\ heap' = NoHeap
               /\ w' = NewRecorder
               /\ calls' = <<>>
               /\ vcalls' = <<>>
               /\ UNCHANGED <<ctor, opts, sig>>

GateHandler == DoHandler(SeqsUpTo(Options, MaxGateOptions))

GateHandler256 == DoHandler256(SeqsUpTo(Options, MaxGateOptions))

Next == \/ GateHandler
        \/ GateHandler256
        \/ DoServeHTTP
        \/ RequestDone

Spec == Init /\ [][Next]_vars

(***************************************************************************)
(* The configuration alone: a constructor applied to longer option lists.  *)
(***************************************************************************)
ConfigHandler == DoHandler(SeqsUpTo(Options, MaxOptions))

ConfigHandler256 == DoHandler256(SeqsUpTo(Options, MaxOptions))

NextOptions == \/ ConfigHandler
               \/ ConfigHandler256

SpecOptions == Init /\ [][NextOptions]_vars

(***************************************************************************)
(* The validators alone, as pure functions of (body, sig, secret).         *)
(***************************************************************************)
DropLast(x) == SubSeq(x, 1, Len(x) - 1)

\* x with its letters in upper case from position `from` on
UpperFrom(x, from) == [i \in 1..Len(x) |-> IF i >= from /\ x[i] \in 97..122 THEN x[i] - 32 ELSE x[i]]

\* x with one character changed, at any one position
OneCharChanged(x) == UNION {{[x EXCEPT ![i] = c] : c \in {48, x[i] + 1} \ {x[i]}} : i \in 1..Len(x)}

\* a signature string damaged: upper case, shorter, longer, one character changed
Damaged(x) == {UpperFrom(x, 1), DropLast(x), Tail(x), x \o <<48>>} \cup OneCharChanged(x)

\* the digest of one binding under the prefix of the other
CrossPrefixed(hash, secret, body) == (IF hash = "sha1" THEN PrefixSHA256 ELSE PrefixSHA1) \o EncodeToString(HMACSum(hash, secret, body))

Signed == {Sign(hash, secret, body) : hash \in Hashes, secret \in Secrets, body \in Bodies}

\* the claimed strings tried on (body, secret): none, junk, every signature of
\* any body under any secret, and the two right ones damaged or cross-prefixed
ValidatorSigs(body, secret) == {<<>>, Invalid} \cup Signed \cup UNION {Damaged(Sign(hash, secret, body)) : hash \in Hashes} \cup {UpperFrom(Sign("sha1", secret, body), Len(PrefixSHA1) + 1), UpperFrom(Sign("sha256", secret, body), Len(PrefixSHA256) + 1)} \cup {CrossPrefixed(hash, secret, body) : hash \in Hashes}

ValidatorCall(validator, body, xSig, secret, res) == [validator |-> validator, body |-> body, sig |-> xSig, secret |-> secret, eq |-> res.eq, steps |-> res.steps]

CallSHA1Validator == /\ phase = "new"
                     /\ \E body \in Bodies, secret \in Secrets : \E xSig \in ValidatorSigs(body, secret) :
                          vcalls' = <<ValidatorCall("SHA1Validator", body, xSig, secret, SHA1Validator(body, xSig, secret))>>
                     /\ phase' = "returned"
                     /\ UNCHANGED <<ctor, opts, sig, req, r, heap, w, calls>>

CallSHA256Validator == /\ phase = "new"
                       /\ \E body \in Bodies, secret \in Secrets : \E xSig \in ValidatorSigs(body, secret) :
                            vcalls' = <<ValidatorCall("SHA256Validator", body, xSig, secret, SHA256Validator(body, xSig, secret))>>
                       /\ phase' = "returned"
                       /\ UNCHANGED <<ctor, opts, sig, req, r, heap, w, calls>>

\* the result is used and dropped
ValidatorReturned == /\ phase = "returned"
                     /\ phase' = "new"
                     /\ vcalls' = <<>>
                     /\ UNCHANGED <<ctor, opts, sig, req, r, heap, w, calls>>

NextValidator == \/ CallSHA1Validator
                 \/ CallSHA256Validator
                 \/ ValidatorReturned

SpecValidator == Init /\ [][NextValidator]_vars

(***************************************************************************)
(* What the claims speak of, stated on the request as sent and on the      *)
(* record of the calls made.                                               *)
(***************************************************************************)
Served == phase = "served"

\* the body is read without error: the reader never fails
ReadOk == req.failAt = NoFail

\* the configured signature header is absent or carries the empty string
SignatureAbsent == \A i \in 1..Len(req.Header) : req.Header[i].key = sig.header => req.Header[i].values[1] = <<>>

\* the value the request carries under the configured header
Claimed == LET i == CHOOSE i \in 1..Len(req.Header) : req.Header[i].key = sig.header IN req.Header[i].values[1]

Roles == [i \in 1..Len(calls) |-> calls[i].role]

RECURSIVE TrimSpace(_)
\* strings.TrimSpace, as the package's tests apply it to a response body
TrimSpace(s) == IF s # <<>> /\ Head(s) = "\n" THEN TrimSpace(Tail(s)) ELSE IF s # <<>> /\ s[Len(s)] = "\n" THEN TrimSpace(DropLast(s)) ELSE s

\* C1: a request whose body is read without error and whose configured
\* signature header is absent or empty goes to the missing-signature handler
\* and to nothing else: not to the downstream handler, not to the
\* verification-failed handler, not to the validator; the default handler
\* answers 403 with the missing-signature message.
C1_MissingGoesToMissingHandler == (Served /\ ReadOk /\ SignatureAbsent) => /\ Roles = <<"missingSignatureHandler">>
                                                                           /\ calls[1].handler = sig.missingSignatureHandler
                                                                           /\ vcalls = <<>>
                                                                           /\ (sig.missingSignatureHandler = "DefaultMissingSignatureHandler" => w.code = 403 /\ TrimSpace(w.body) = <<"Missing required header for HMAC verification">>)

\* C1 witness: a signed non-empty body whose signature travels under a header
\* other than the configured one is answered by the default missing handler.
C1_Witness == /\ Served /\ ReadOk /\ SignatureAbsent
              /\ req.body = <<65, 66>>
              /\ sig.header = FunkyHeader
              /\ req.Header = <<[key |-> GithubSignatureHeader, values |-> <<Sign("sha1", sig.secret, req.body)>>]>>
              /\ Roles = <<"missingSignatureHandler">>
              /\ w.code = 403

\* C2: a request whose body is read without error, whose configured header is
\* non-empty and which the configured validator rejects goes to the
\* verification-failed handler and to no other handler; the default handler
\* answers 403 with the verification-failed message.
C2_RejectedGoesToFailedHandler == (Served /\ ReadOk /\ ~SignatureAbsent /\ ~CallValidator(sig.validator, req.body, Claimed, sig.secret).eq) => /\ Roles = <<"verifyFailedHandler">>
                                                                                                                                              /\ calls[1].handler = sig.verifyFailedHandler
                                                                                                                                              /\ (sig.verifyFailedHandler = "DefaultVerifyFailedHandler" => w.code = 403 /\ TrimSpace(w.body) = <<"HMAC verification failed">>)

\* C2 witness: the header value "invalid" is answered by the default
\* verification-failed handler.
C2_Witness == /\ Served /\ ReadOk /\ ~SignatureAbsent
              /\ Claimed = Invalid
              /\ Roles = <<"verifyFailedHandler">>
              /\ calls[1].handler = "DefaultVerifyFailedHandler"
              /\ w.code = 403

\* C3: when the request is forwarded, the downstream handler reads, from the
\* start of the body it is given to end-of-stream, exactly the bytes sent, and
\* the method, the headers and the path are the ones received.
C3_ForwardedBodyIsTheBodySent == Served => \A i \in 1..Len(calls) : calls[i].role = "h" => /\ calls[i].read = req.body
                                                                                           /\ calls[i].reader.pos = 0
                                                                                           /\ heap[r.Body].pos = Len(req.body)
                                                                                           /\ calls[i].r.Method = req.Method
                                                                                           /\ calls[i].r.URL = req.URL
                                                                                           /\ calls[i].r.Header = req.Header

\* C3 witness: a two-byte body of two different bytes is forwarded and read.
C3_Witness == /\ Served
              /\ Roles = <<"h">>
              /\ req.body = <<65, 66>>
              /\ calls[1].read = <<65, 66>>

\* C5: a gate with the SHA-256 binding rejects the signature that is right for
\* the SHA-1 binding, and the other way round: the request goes to the
\* verification-failed handler and never downstream.
C5_OtherBindingsSignatureRejected == (Served /\ ReadOk /\ ~SignatureAbsent) => /\ (sig.validator = "SHA256Validator" /\ Claimed = Sign("sha1", sig.secret, req.body)) => Roles = <<"verifyFailedHandler">>
                                                                               /\ (sig.validator = "SHA1Validator" /\ Claimed = Sign("sha256", sig.secret, req.body)) => Roles = <<"verifyFailedHandler">>

\* C5 witness: a SHA-256 gate is sent the SHA-1 signature of the body under
\* its own secret, and rejects it.
C5_Witness == /\ Served /\ ReadOk /\ ~SignatureAbsent
              /\ sig.validator = "SHA256Validator"
              /\ req.body # <<>>
              /\ Claimed = Sign("sha1", sig.secret, req.body)
              /\ Roles = <<"verifyFailedHandler">>

\* C6: when reading the body fails, the answer is 500 with the read error's
\* text and no handler is called, the validator neither, whatever the
\* signature header holds.
C6_ReadErrorIs500 == (Served /\ ~ReadOk) => /\ calls = <<>>
                                            /\ vcalls = <<>>
                                            /\ w.code = 500
                                            /\ TrimSpace(w.body) = <<"unexpected EOF">>

\* C6 witness: the read fails after one byte of two, under a wrong signature.
C6_Witness == /\ Served
              /\ req.failAt = 1
              /\ req.body = <<65, 66>>
              /\ ~SignatureAbsent
              /\ Claimed = Invalid
              /\ w.code = 500

\* C7, as claimed: every request is handed to exactly one handler.
C7_ExactlyOneHandlerAlways == Served => Len(calls) = 1

\* C7, amended: a request whose body is read without error is handed to
\* exactly one of the three handlers, once; a request whose body cannot be
\* read is handed to none.
C7_ExactlyOneHandlerWhenRead == Served => /\ ReadOk => (Len(calls) = 1 /\ calls[1].role \in {"h", "missingSignatureHandler", "verifyFailedHandler"})
                                          /\ ~ReadOk => calls = <<>>

\* C7 witness: a rejected request has called one handler and no other.
C7_Witness == /\ Served /\ ReadOk
              /\ ~SignatureAbsent
              /\ Roles = <<"verifyFailedHandler">>

\* C10: the missing-signature and verification-failed handlers get the
\* request with its original body consumed to the end, not closed and not
\* replaced, and read nothing from it; the downstream handler gets a fresh
\* reader over the buffered bytes, the original body closed.
C10_BodyRestoredOnlyOnSuccess == Served => \A i \in 1..Len(calls) : /\ calls[i].role \in {"missingSignatureHandler", "verifyFailedHandler"} => /\ calls[i].r.Body = "orig"
                                                                                                                                                  /\ calls[i].reader.pos = Len(req.body)
                                                                                                                                                  /\ ~calls[i].reader.closed
                                                                                                                                                  /\ calls[i].read = <<>>
                                                                                                                                                  /\ heap.buf = NoReader
                                                                                                                                                  /\ ~heap.orig.closed
                                                                    /\ calls[i].role = "h" => /\ calls[i].r.Body = "buf"
                                                                                              /\ calls[i].reader = [data |-> req.body, pos |-> 0, failAt |-> NoFail, closed |-> FALSE]
                                                                                              /\ heap.orig.closed

\* C10 witness: a caller's verification-failed handler reads the body of a
\* rejected two-byte request and gets nothing.
C10_Witness == /\ Served
               /\ Roles = <<"verifyFailedHandler">>
               /\ calls[1].handler = "onFailed"
               /\ req.body = <<66, 65>>
               /\ calls[1].read = <<>>
               /\ r.Body = "orig"

(***************************************************************************)
(* The validators' contract, stated without the encoder and the comparison *)
(* the validators use.                                                     *)
(***************************************************************************)
LowerHexDigits == (48..57) \cup (97..102)

HexValue(c) == IF c \in 48..57 THEN c - 48 ELSE c - 87

\* x is prefix followed by the lower-case hex of digest, byte for byte
IsPrefixThenLowerHex(prefix, digest, x) == /\ Len(x) = Len(prefix) + 2 * Len(digest)
                                           /\ \A i \in 1..Len(prefix) : x[i] = prefix[i]
                                           /\ \A k \in 1..Len(digest) : /\ x[Len(prefix) + 2 * k - 1] \in LowerHexDigits
                                                                        /\ x[Len(prefix) + 2 * k] \in LowerHexDigits
                                                                        /\ 16 * HexValue(x[Len(prefix) + 2 * k - 1]) + HexValue(x[Len(prefix) + 2 * k]) = digest[k]

\* C4: SHA1Validator(B, sig, S) is true exactly when sig is "sha1=" followed
\* by the lower-case hex of HMAC-SHA1(S, B), SHA256Validator(B, sig, S) exactly
\* when sig is "sha256=" followed by the lower-case hex of HMAC-SHA256(S, B);
\* any other sig (another length, another prefix, upper-case hex, a changed
\* character) is refused.
C4_ValidatorAcceptsExactlyTheExpectedString == phase = "returned" => \A i \in 1..Len(vcalls) : /\ vcalls[i].validator = "SHA1Validator" => (vcalls[i].eq <=> IsPrefixThenLowerHex(<<115, 104, 97, 49, 61>>, HMACSum("sha1", vcalls[i].secret, vcalls[i].body), vcalls[i].sig))
                                                                                               /\ vcalls[i].validator = "SHA256Validator" => (vcalls[i].eq <=> IsPrefixThenLowerHex(<<115, 104, 97, 50, 53, 54, 61>>, HMACSum("sha256", vcalls[i].secret, vcalls[i].body), vcalls[i].sig))

\* C4 witness: SHA256Validator has accepted the signature of a two-byte body.
C4_Witness == /\ phase = "returned"
              /\ vcalls[1].validator = "SHA256Validator"
              /\ vcalls[1].body = <<65, 66>>
              /\ vcalls[1].secret = <<107>>
              /\ vcalls[1].sig = Sign("sha256", <<107>>, <<65, 66>>)
              /\ vcalls[1].eq

HashOf(validator) == IF validator = "SHA1Validator" THEN "sha1" ELSE "sha256"

\* claimed strings as long as `call.sig`: call.sig and the expected string,
\* each with one character changed at any one position, and the expected string
SameLengthClaims(call) == LET esig == Sign(HashOf(call.validator), call.secret, call.body)
                          IN {x \in OneCharChanged(call.sig) \cup OneCharChanged(esig) \cup {esig} : Len(x) = Len(call.sig)}

\* C8: the comparison of the expected with the claimed string examines the
\* same number of bytes for any two claimed strings of one length, wherever
\* they first differ from the expected string and however many bytes match.
C8_ComparisonWorkDependsOnLengthOnly == phase = "returned" => \A i \in 1..Len(vcalls) : \A x \in SameLengthClaims(vcalls[i]) : CallValidator(vcalls[i].validator, vcalls[i].body, x, vcalls[i].secret).steps = vcalls[i].steps

\* C8 witness: a claimed string wrong in its first character only has been
\* compared over its whole length.
C8_Witness == /\ phase = "returned"
              /\ vcalls[1].validator = "SHA1Validator"
              /\ ~vcalls[1].eq
              /\ vcalls[1].sig # <<>>
              /\ Tail(vcalls[1].sig) = Tail(Sign("sha1", vcalls[1].secret, vcalls[1].body))
              /\ vcalls[1].steps = Len(vcalls[1].sig)

(***************************************************************************)
(* The configuration a constructor yields.                                 *)
(***************************************************************************)
\* the options in the order they take effect
Effective == IF ctor = "Handler256" THEN <<[kind |-> "OptionDefaultsSHA256", arg |-> "-"]>> \o opts ELSE opts

\* the last of the effective options whose kind is in `kinds`, 0 when none
LastOf(kinds) == LET at == {i \in 1..Len(Effective) : Effective[i].kind \in kinds} IN IF at = {} THEN 0 ELSE CHOOSE i \in at : \A j \in at : j <= i

LastHeader == LastOf({"OptionHeader", "OptionDefaultsSHA256"})

LastValidator == LastOf({"OptionSignatureValidator", "OptionDefaultsSHA256"})

LastMissing == LastOf({"OptionMissingSignatureHandler"})

LastFailed == LastOf({"OptionVerifyFailedHandler"})

\* C9: each field of the configuration is what the last option writing it
\* wrote, or its default when none did, Handler256 applying
\* OptionDefaultsSHA256 ahead of the caller's options; so Handler256 alone
\* gives X-Hub-Signature-256 with SHA256Validator, and a header or a
\* validator the caller passes to it is in effect, each without the other.
C9_LastOptionWins == phase = "ready" => /\ sig.header = (IF LastHeader = 0 THEN "X-Hub-Signature" ELSE IF Effective[LastHeader].kind = "OptionHeader" THEN Effective[LastHeader].arg ELSE "X-Hub-Signature-256")
                                        /\ sig.validator = (IF LastValidator = 0 THEN "SHA1Validator" ELSE IF Effective[LastValidator].kind = "OptionSignatureValidator" THEN Effective[LastValidator].arg ELSE "SHA256Validator")
                                        /\ sig.missingSignatureHandler = (IF LastMissing = 0 THEN "DefaultMissingSignatureHandler" ELSE Effective[LastMissing].arg)
                                        /\ sig.verifyFailedHandler = (IF LastFailed = 0 THEN "DefaultVerifyFailedHandler" ELSE Effective[LastFailed].arg)
                                        /\ (ctor = "Handler256" /\ opts = <<>>) => (sig.header = "X-Hub-Signature-256" /\ sig.validator = "SHA256Validator")
                                        /\ (ctor = "Handler256" /\ \E i \in 1..Len(opts) : opts[i].kind = "OptionHeader" /\ \A j \in (i + 1)..Len(opts) : opts[j].kind \notin {"OptionHeader", "OptionDefaultsSHA256"}) => sig.header = FunkyHeader
                                        /\ (ctor = "Handler256" /\ \E i \in 1..Len(opts) : opts[i] = [kind |-> "OptionSignatureValidator", arg |-> "SHA1Validator"] /\ \A j \in (i + 1)..Len(opts) : opts[j].kind \notin {"OptionSignatureValidator", "OptionDefaultsSHA256"}) => sig.validator = "SHA1Validator"

\* C9 witness: Handler256 given a header and a missing-signature handler reads
\* that header with the SHA-256 binding.
C9_Witness == /\ phase = "ready"
              /\ ctor = "Handler256"
              /\ opts = <<OptionHeader(FunkyHeader), OptionMissingSignatureHandler("onMissing")>>
              /\ sig.header = FunkyHeader
              /\ sig.validator = "SHA256Validator"
              /\ sig.missingSignatureHandler = "onMissing"

====
